---- MODULE Spec2Model ----
(***************************************************************************)
(* Model of OpcionesTEST.py, the interactive option selector.              *)
(*                                                                         *)
(* The script is re-executed from top to bottom on every interaction, so   *)
(* one script run is one action.  What survives between runs is the two    *)
(* memoization tables of get_option_dataframes and get_option_history.     *)
(*                                                                         *)
(* Prices and strikes are fixed-point numbers in thousandths (Milli per    *)
(* unit), one digit finer than the two decimals the script rounds to, so   *)
(* that round(x, 2) and round(x, -1) are real roundings in the model.      *)
(***************************************************************************)
EXTENDS Integers, Sequences, FiniteSets

VARIABLES
    \* the widgets' values in the last run
    ticker_simbolo, strike_central, strikes_disponibles, strike_idx,
    strike_elegido, todas_las_fechas, fechas_a_mostrar, fecha_elegida,
    tipo_opcion_elegido, boton,
    \* what the last run rendered, looked up and raised, and how it ended;
    \* excepcion records the exception that escaped the run (lanzada), the one
    \* raised inside the try block (bloque) and whether the history fetch
    \* raised inside get_option_history (tragada)
    out, mostrado, metricas, llamadas, excepcion, fin,
    \* the memoization tables and, per argument tuple, the age of its last store
    cache_df, cache_hist, guardado

vars == <<ticker_simbolo, strike_central, strikes_disponibles, strike_idx,
          strike_elegido, todas_las_fechas, fechas_a_mostrar, fecha_elegida,
          tipo_opcion_elegido, boton, out, mostrado, metricas, llamadas,
          excepcion, fin, cache_df, cache_hist, guardado>>

varsFecha == <<todas_las_fechas, fechas_a_mostrar, fecha_elegida>>
varsStrike == <<strike_central, strikes_disponibles, strike_idx, strike_elegido>>
varsRun == <<ticker_simbolo, tipo_opcion_elegido, boton, mostrado, metricas,
             llamadas, excepcion, fin>>
varsCache == <<cache_df, cache_hist, guardado>>

----------------------------------------------------------------------------
\* Bounds of the model.

\* longest list of expiration dates the provider returns
MaxDates == 64
\* reference strikes range over -MaxCentral..MaxCentral thousandths
MaxCentral == 120

\* Program constants.

\* thousandths per unit of price
Milli == 1000
\* st.cache_data(ttl=3600)
TTL == 3600
\* the first dates always shown, todas_las_fechas[:10]
Cercanas == 10
\* len(fechas_a_mostrar) < 20
MaxMostrar == 20
\* range(21)
NumStrikes == 21
\* st.selectbox(..., index=10), and the (i - 10) of the candidates
DefaultIndex == 10

\* None is the empty sequence and a present value x is <<x>>
None == <<>>
Algo(x) == <<x>>

Max(a, b) == IF a >= b THEN a ELSE b
Min(a, b) == IF a <= b THEN a ELSE b

----------------------------------------------------------------------------
\* round(x, ndigits) on fixed-point numbers: the nearest multiple of u, a tie
\* going to the even multiple, as Python's round does.
RoundTo(x, u) ==
    LET q == x \div u
        r == x % u
    IN  IF 2 * r < u THEN q * u
        ELSE IF 2 * r > u THEN (q + 1) * u
        ELSE IF q % 2 = 0 THEN q * u ELSE (q + 1) * u

\* two decimals are ten thousandths, the tens are ten thousand thousandths
Round2(x) == RoundTo(x, Milli \div 100)
RoundTens(x) == RoundTo(x, 10 * Milli)

\* The error a binary floating-point addition may leave below the digits the
\* script keeps.  Adding 0.0 is exact.
FloatErr == {-1, 0, 1}
FloatAdd(a, b, err) == IF b = 0 THEN a ELSE a + b + err

\* (i - 10) * 0.5, exact in binary floating point
Desplazamiento(i) == (i - DefaultIndex) * (Milli \div 2)

\* [round(strike_central + (i - 10) * 0.5, 2) for i in range(21)]
\* (TLA+ sequences are 1-based: element i + 1 is the script's index i)
StrikesDisponiblesSinRedondeo(c, err) ==
    [k \in 1..NumStrikes |-> FloatAdd(c, Desplazamiento(k - 1), err)]
StrikesDisponibles(c, err) ==
    [k \in 1..NumStrikes |-> Round2(FloatAdd(c, Desplazamiento(k - 1), err))]

----------------------------------------------------------------------------
\* The thinning of the expiration dates, lines 76-82.

\* for i in range(i, len(fechas_lejanas), paso):
\*     if len(fechas_a_mostrar) < 20: fechas_a_mostrar.append(fechas_lejanas[i])
RECURSIVE BucleLejanasSinTope(_, _, _, _)
BucleLejanasSinTope(acc, lejanas, i, paso) ==
    IF i >= Len(lejanas) THEN acc
    ELSE BucleLejanasSinTope(Append(acc, lejanas[i + 1]), lejanas, i + paso, paso)

RECURSIVE BucleLejanas(_, _, _, _)
BucleLejanas(acc, lejanas, i, paso) ==
    IF i >= Len(lejanas) THEN acc
    ELSE BucleLejanas(IF Len(acc) < MaxMostrar
                        THEN Append(acc, lejanas[i + 1]) ELSE acc,
                      lejanas, i + paso, paso)

\* paso = max(1, len(fechas_lejanas) // 10)
PasoMasUno(m) == m \div 10 + 1
Paso(m) == Max(1, m \div 10)

\* fechas_a_mostrar for a non-empty todas_las_fechas
FechasAMostrar(todas) ==
    LET n == Len(todas)
        cercanas == SubSeq(todas, 1, Min(Cercanas, n))
    IN  IF n > Cercanas
          THEN BucleLejanas(cercanas, SubSeq(todas, Cercanas + 1, n), 0,
                            Paso(n - Cercanas))
          ELSE cercanas

----------------------------------------------------------------------------
\* The market-data provider, as the script sees it.

\* what the user may type in the text input, already upper-cased
TickerInputs == {"", "AAA", "BBB", "SINOPC", "MALO"}

\* accion.history(period="1d")['Close']: the empty series for an unknown ticker
Cierre(t) ==
    CASE t = "AAA" -> <<103270>>
      [] t = "BBB" -> <<98400>>
      [] t = "SINOPC" -> <<55000>>
      [] OTHER -> <<>>

\* accion.options
Opciones(t) ==
    CASE t = "AAA" -> <<1, 2>>
      [] t = "BBB" -> <<2>>
      [] OTHER -> <<>>

Fila(t, d, tipo, strike) ==
    [strike |-> strike, contractSymbol |-> <<t, d, tipo, strike>>]

\* _ticker.option_chain(fecha): the calls and the puts of ticker t expiring on d
Cadena(t, d) ==
    CASE t = "AAA" /\ d = 1 ->
           [calls |-> <<Fila(t, d, "C", 99500)>>,
            puts |-> <<Fila(t, d, "P", 101000)>>]
      [] t = "AAA" /\ d = 2 ->
           [calls |-> <<Fila(t, d, "C", 99500), Fila(t, d, "C", 101000)>>,
            puts |-> <<Fila(t, d, "P", 100500), Fila(t, d, "P", 101000)>>]
      [] t = "BBB" /\ d = 2 ->
           [calls |-> <<Fila(t, d, "C", 100000), Fila(t, d, "C", 102000)>>,
            puts |-> <<Fila(t, d, "P", 98000)>>]
      [] OTHER -> [calls |-> <<>>, puts |-> <<>>]

\* what can go wrong in one run: nothing, or one of the external calls or
\* table accesses raises, or the provider has no history for the contract
Fallas == {"ninguna", "historia_dia", "cadena", "filtro", "metricas",
           "hist_raise", "hist_vacio", "grafico"}

\* the candidates the user may pick in the strike select box
StrikeIdxInputs == {DefaultIndex, DefaultIndex + 1}

----------------------------------------------------------------------------
\* st.cache_data(ttl=3600): a table from key to the stored value, its age in
\* seconds (ages stop counting at TTL) and the arguments of the call that
\* stored it.

\* A parameter whose name starts with an underscore is left out of the key:
\* get_option_dataframes(_ticker, fecha) is keyed by fecha alone.
ClaveDf(t, fecha) == <<fecha>>
\* get_option_history(contract_symbol)
ClaveHist(sym) == <<sym>>

Vigente(cache, k) == k \in DOMAIN cache /\ cache[k].edad < TTL

\* a store, which also drops the entries that have expired
Guardar(cache, k, v, args) ==
    LET vivos == {x \in DOMAIN cache : cache[x].edad < TTL} \cup {k}
    IN  [x \in vivos |->
            IF x = k THEN [valor |-> v, edad |-> 0, args |-> args]
            ELSE cache[x]]

Envejecer(cache, dt) ==
    [x \in DOMAIN cache |-> [cache[x] EXCEPT !.edad = Min(TTL, @ + dt)]]

\* the ghost record of the last store made by each argument tuple
Anotar(g, fn, args) ==
    [x \in DOMAIN g \cup {<<fn, args>>} |->
        IF x = <<fn, args>> THEN 0 ELSE g[x]]
EnvejecerAnotado(g, dt) == [x \in DOMAIN g |-> Min(TTL, g[x] + dt)]

Llamada(fn, args, acierto, origen, edad, previo) ==
    [fn |-> fn, args |-> args, acierto |-> acierto, origen |-> origen,
     edad |-> edad, previo |-> previo]

\* get_option_dataframes(accion, fecha_elegida), lines 19-26.  The result is
\* the pair of tables, or an exception when the fetch raises.
GetOptionDataframes(t, fecha, falla, cdf, g) ==
    LET k == ClaveDf(t, fecha)
        args == <<t, fecha>>
        previo == IF <<"df", args>> \in DOMAIN g
                    THEN Algo(g[<<"df", args>>]) ELSE None
    IN  IF Vigente(cdf, k)
          THEN [ok |-> TRUE, valor |-> cdf[k].valor, cache_df |-> cdf,
                guardado |-> g,
                llamada |-> Llamada("df", args, TRUE, cdf[k].args,
                                    cdf[k].edad, previo)]
        ELSE IF falla = "cadena"
          THEN [ok |-> FALSE, valor |-> Cadena("", 0), cache_df |-> cdf,
                guardado |-> g,
                llamada |-> Llamada("df", args, FALSE, args, 0, previo)]
        ELSE [ok |-> TRUE, valor |-> Cadena(t, fecha),
              cache_df |-> Guardar(cdf, k, Cadena(t, fecha), args),
              guardado |-> Anotar(g, "df", args),
              llamada |-> Llamada("df", args, FALSE, args, 0, previo)]

\* get_option_history(contract_symbol), lines 29-38: the history, or the
\* empty table when the fetch raises; either is what the cache stores.
HistorialSinTry(falla) ==
    IF falla = "hist_raise" THEN "raise"
    ELSE IF falla = "hist_vacio" THEN "vacio" ELSE "datos"
Historial(falla) ==
    IF falla \in {"hist_raise", "hist_vacio"} THEN "vacio" ELSE "datos"

GetOptionHistory(sym, falla, ch, g) ==
    LET k == ClaveHist(sym)
        args == <<sym>>
        previo == IF <<"hist", args>> \in DOMAIN g
                    THEN Algo(g[<<"hist", args>>]) ELSE None
    IN  IF Vigente(ch, k)
          THEN [valor |-> ch[k].valor, cache_hist |-> ch, guardado |-> g,
                raised |-> FALSE,
                llamada |-> Llamada("hist", args, TRUE, ch[k].args,
                                    ch[k].edad, previo)]
        ELSE IF Historial(falla) = "raise"
          THEN [valor |-> "raise", cache_hist |-> ch, guardado |-> g,
                raised |-> TRUE,
                llamada |-> Llamada("hist", args, FALSE, args, 0, previo)]
        ELSE [valor |-> Historial(falla),
              cache_hist |-> Guardar(ch, k, Historial(falla), args),
              guardado |-> Anotar(g, "hist", args),
              raised |-> falla = "hist_raise",
              llamada |-> Llamada("hist", args, FALSE, args, 0, previo)]

----------------------------------------------------------------------------
\* One rendered element: its kind and, for an error, the exception's message.
El(kind, detalle) == <<kind, detalle>>
Clases(o) == [i \in 1..Len(o) |-> o[i][1]]

\* datos = calls if tipo_opcion_elegido == "Call" else puts
Datos(chain, tipo) == IF tipo = "Call" THEN chain.calls ELSE chain.puts

\* datos[datos['strike'] == strike_elegido]
OpcionSeleccionada(datos, strike) ==
    LET Coincide(f) == f.strike = strike
    IN  SelectSeq(datos, Coincide)

\* The body of the try, lines 97-129: what it rendered before it ended or
\* raised.  base is the state after the chain lookup, sel the filtered rows
\* and h the history lookup of the first of them.
Hallada == <<El("success_encontrada", ""), El("dataframe", ""),
             El("subheader_metricas", "")>>
Medido == Hallada \o <<El("metricas", ""), El("subheader_historial", "")>>

\* lines 120-129
CuerpoHistorial(base, sel, h, falla) ==
    LET conHist == [base EXCEPT
                      !.mostrado = sel,
                      !.metricas = Algo(sel[1]),
                      !.llamadas = base.llamadas \o <<h.llamada>>,
                      !.tragada = h.raised,
                      !.cache_hist = h.cache_hist,
                      !.guardado = h.guardado]
    IN  IF h.valor = "raise"
          THEN [conHist EXCEPT !.out = Medido, !.lanza = Algo("hist_raise")]
        ELSE IF h.valor = "vacio"
          THEN [conHist EXCEPT
                  !.out = Medido \o <<El("warning_sin_historial", "")>>]
        ELSE IF falla = "grafico"
          THEN [conHist EXCEPT !.out = Medido, !.lanza = Algo("grafico")]
        ELSE [conHist EXCEPT !.out = Medido \o <<El("line_chart", "")>>]

\* lines 103-129
CuerpoSeleccion(base, sel, falla) ==
    IF sel = <<>>
      THEN [base EXCEPT !.out = <<El("warning_no_encontrada", "")>>]
    ELSE IF falla = "metricas"
      THEN [base EXCEPT !.out = Hallada, !.mostrado = sel,
                        !.lanza = Algo("metricas")]
    ELSE CuerpoHistorial(base, sel,
                         GetOptionHistory(sel[1].contractSymbol, falla,
                                          base.cache_hist, base.guardado),
                         falla)

\* lines 99-129
CuerpoDatos(df, tipo, strike, falla, ch) ==
    LET base == [out |-> <<>>, mostrado |-> <<>>, metricas |-> None,
                 llamadas |-> <<df.llamada>>, lanza |-> None,
                 capturada |-> None, tragada |-> FALSE,
                 cache_df |-> df.cache_df, cache_hist |-> ch,
                 guardado |-> df.guardado]
    IN  IF ~df.ok THEN [base EXCEPT !.lanza = Algo("cadena")]
        ELSE IF falla = "filtro" THEN [base EXCEPT !.lanza = Algo("filtro")]
        ELSE CuerpoSeleccion(base,
                             OpcionSeleccionada(Datos(df.valor, tipo), strike),
                             falla)

Cuerpo(t, fecha, tipo, strike, falla, cdf, ch, g) ==
    CuerpoDatos(GetOptionDataframes(t, fecha, falla, cdf, g),
                tipo, strike, falla, ch)

\* try: ... except Exception as e: st.error(f"...{e}"), lines 95 and 132-133
\* (capturada remembers what was caught)
TrySinExcept(c) == c
TryExcept(c) ==
    IF c.lanza = None THEN c
    ELSE [c EXCEPT !.out = c.out \o <<El("error", c.lanza[1])>>,
                   !.capturada = c.lanza,
                   !.lanza = None]

\* if st.button(...) and fecha_elegida:
HayBusquedaSinBoton(btn, fecha) == fecha # None
HayBusqueda(btn, fecha) == btn /\ fecha # None

Cabecera == <<El("title", ""), El("text_input", "")>>
Pie == <<El("markdown", ""), El("footer", "")>>

\* the strike column, lines 62-66
ColumnaStrike == <<El("number_input_strike", ""), El("selectbox_strike", "")>>
\* the expiration column, lines 70-84
ColumnaFecha(todas) ==
    IF todas = <<>> THEN <<El("warning_sin_opciones", "")>>
    ELSE <<El("selectbox_fecha", "")>>
\* the type column and the button, lines 88-92
ColumnaTipo == <<El("selectbox_tipo", ""), El("button", "")>>

\* except IndexError: st.error(...); st.stop(), lines 49-53
TickerInvalidoSinStop(s) ==
    [s EXCEPT !.out = Cabecera \o <<El("error_ticker", "")>>]
TickerInvalido(s) ==
    [s EXCEPT !.out = Cabecera \o <<El("error_ticker", "")>>,
              !.fin = "stop"]

----------------------------------------------------------------------------
\* One run of the script, top to bottom, as a function of the widgets' values
\* (t typed, idx and fi picked in the select boxes, tipo, btn pressed), of
\* what fails in this run, and of the two memoization tables.

Inicial(t, cdf, ch, g) ==
    [ticker_simbolo |-> t, strike_central |-> 0, strikes_disponibles |-> <<>>,
     strike_idx |-> DefaultIndex, strike_elegido |-> 0,
     todas_las_fechas |-> <<>>, fechas_a_mostrar |-> <<>>,
     fecha_elegida |-> None, tipo_opcion_elegido |-> "Call", boton |-> FALSE,
     out |-> Cabecera, mostrado |-> <<>>, metricas |-> None,
     llamadas |-> <<>>, excepcion |-> None, tragada |-> FALSE,
     bloque |-> None,
     fin |-> "completo",
     cache_df |-> cdf, cache_hist |-> ch, guardado |-> g]

\* lines 92-136: the search, when there is one, and the footer.  w is the run
\* after the selectors, visto what they rendered, c the try block's outcome.
Busqueda(w, visto, c) ==
    LET r == [w EXCEPT
                !.mostrado = c.mostrado,
                !.metricas = c.metricas,
                !.llamadas = c.llamadas,
                !.tragada = c.tragada,
                !.bloque = IF c.lanza # None THEN c.lanza ELSE c.capturada,
                !.cache_df = c.cache_df,
                !.cache_hist = c.cache_hist,
                !.guardado = c.guardado]
    IN  IF c.lanza # None
          THEN [r EXCEPT
                  !.out = visto \o <<El("info", "")>> \o c.out
                            \o <<El("traceback", c.lanza[1])>>,
                  !.excepcion = c.lanza,
                  !.fin = "excepcion"]
        ELSE [r EXCEPT !.out = visto \o <<El("info", "")>> \o c.out \o Pie]

\* lines 58-136, with the candidates and the dates the selectors offer
Columnas(s, strikes, todas, mostrar, idx, fi, tipo, btn, falla) ==
    LET fecha == IF todas = <<>> THEN None ELSE Algo(mostrar[fi])
        visto == Cabecera \o <<El("success_precio", "")>> \o ColumnaStrike
                    \o ColumnaFecha(todas) \o ColumnaTipo
        w == [s EXCEPT
                !.strike_central = strikes[DefaultIndex + 1],
                !.strikes_disponibles = strikes,
                !.strike_idx = idx,
                !.strike_elegido = strikes[idx + 1],
                !.todas_las_fechas = todas,
                !.fechas_a_mostrar = mostrar,
                !.fecha_elegida = fecha,
                !.tipo_opcion_elegido = tipo,
                !.boton = btn]
    IN  IF ~HayBusqueda(btn, fecha) THEN [w EXCEPT !.out = visto \o Pie]
        ELSE Busqueda(w, visto,
                      TryExcept(Cuerpo(s.ticker_simbolo, fecha[1], tipo,
                                       strikes[idx + 1], falla, s.cache_df,
                                       s.cache_hist, s.guardado)))

\* lines 55-136, reached with a closing price
Selectores(s, precio, idx, fi, tipo, btn, falla) ==
    Columnas(s, StrikesDisponibles(RoundTens(precio), 0),
             Opciones(s.ticker_simbolo),
             IF Opciones(s.ticker_simbolo) = <<>> THEN <<>>
             ELSE FechasAMostrar(Opciones(s.ticker_simbolo)),
             idx, fi, tipo, btn, falla)

Script(t, idx, fi, tipo, btn, falla, cdf, ch, g) ==
    LET s == Inicial(t, cdf, ch, g)
        cierre == Cierre(t)
        inval == TickerInvalido(s)
    IN  IF t = "" THEN [s EXCEPT !.out = Cabecera \o Pie]
        ELSE IF falla = "historia_dia"
          THEN [s EXCEPT !.out = Cabecera \o <<El("traceback", falla)>>,
                         !.excepcion = Algo(falla),
                         !.fin = "excepcion"]
        ELSE IF cierre = <<>> /\ inval.fin = "stop" THEN inval
        ELSE Selectores(IF cierre = <<>> THEN inval ELSE s,
                        IF cierre = <<>> THEN 0 ELSE cierre[Len(cierre)],
                        idx, fi, tipo, btn, falla)

Volcar(r) ==
    /\ ticker_simbolo' = r.ticker_simbolo
    /\ strike_central' = r.strike_central
    /\ strikes_disponibles' = r.strikes_disponibles
    /\ strike_idx' = r.strike_idx
    /\ strike_elegido' = r.strike_elegido
    /\ todas_las_fechas' = r.todas_las_fechas
    /\ fechas_a_mostrar' = r.fechas_a_mostrar
    /\ fecha_elegida' = r.fecha_elegida
    /\ tipo_opcion_elegido' = r.tipo_opcion_elegido
    /\ boton' = r.boton
    /\ out' = r.out
    /\ mostrado' = r.mostrado
    /\ metricas' = r.metricas
    /\ llamadas' = r.llamadas
    /\ excepcion' = [lanzada |-> r.excepcion, tragada |-> r.tragada,
                     bloque |-> r.bloque]
    /\ fin' = r.fin
    /\ cache_df' = r.cache_df
    /\ cache_hist' = r.cache_hist
    /\ guardado' = guardado

\* The inputs of a run that exist: a widget the run does not render has no
\* value to pick, and a call the run does not make cannot fail.
Alcanzable(t, idx, fi, tipo, btn, falla) ==
    IF t = "" \/ Cierre(t) = <<>> \/ falla = "historia_dia"
      THEN /\ idx = DefaultIndex /\ fi = 1 /\ tipo = "Call" /\ ~btn
           /\ falla \in {"ninguna", "historia_dia"}
           /\ t = "" => falla = "ninguna"
    ELSE IF ~btn \/ Opciones(t) = <<>> THEN falla = "ninguna"
    ELSE TRUE

\* a rerun: any interaction with the page
Run ==
    \E t \in TickerInputs, idx \in StrikeIdxInputs, tipo \in {"Call", "Put"},
       btn \in BOOLEAN, falla \in Fallas :
        \E fi \in 1..Max(1, Len(Opciones(t))) :
            /\ Alcanzable(t, idx, fi, tipo, btn, falla)
            /\ \E r \in {Script(t, idx, fi, tipo, btn, falla,
                                cache_df, cache_hist, guardado)} : Volcar(r)

\* dt seconds pass between two runs; the page stays as it was rendered
Tick(dt) ==
    /\ cache_df' = Envejecer(cache_df, dt)
    /\ cache_hist' = Envejecer(cache_hist, dt)
    /\ guardado' = EnvejecerAnotado(guardado, dt)
    /\ UNCHANGED <<varsFecha, varsStrike, varsRun, out>>

InitApp ==
    /\ ticker_simbolo = ""
    /\ tipo_opcion_elegido = "Call"
    /\ boton = FALSE
    /\ out = <<>>
    /\ mostrado = <<>>
    /\ metricas = None
    /\ llamadas = <<>>
    /\ excepcion = [lanzada |-> None, tragada |-> FALSE, bloque |-> None]
    /\ fin = "completo"
    /\ cache_df = <<>>
    /\ cache_hist = <<>>
    /\ guardado = <<>>

Init ==
    /\ InitApp
    /\ strike_central = 0
    /\ strikes_disponibles = <<>>
    /\ strike_idx = DefaultIndex
    /\ strike_elegido = 0
    /\ todas_las_fechas = <<>>
    /\ fechas_a_mostrar = <<>>
    /\ fecha_elegida = None

Next == Run \/ Tick(TTL)

Spec == Init /\ [][Next]_vars

----------------------------------------------------------------------------
\* The two memoized functions on their own, called with any arguments and with
\* waits of just under and of exactly one hour between the calls.

\* the contracts whose history is asked for
Simbolos == {Cadena("AAA", 2).puts[1].contractSymbol,
             Cadena("BBB", 2).calls[1].contractSymbol}

LlamarDataframes ==
    \E t \in TickerInputs, falla \in {"ninguna", "cadena"} :
        \E i \in 1..Len(Opciones(t)) :
            \E r \in {GetOptionDataframes(t, Opciones(t)[i], falla,
                                          cache_df, guardado)} :
                /\ cache_df' = r.cache_df
                /\ guardado' = r.guardado
                /\ llamadas' = <<r.llamada>>
                /\ excepcion' = [lanzada |-> IF r.ok THEN None
                                             ELSE Algo("cadena"),
                                 tragada |-> FALSE, bloque |-> None]
                /\ mostrado' = IF r.ok THEN r.valor.calls \o r.valor.puts
                               ELSE <<>>
                /\ UNCHANGED <<varsFecha, varsStrike, ticker_simbolo,
                               tipo_opcion_elegido, boton, metricas, fin, out,
                               cache_hist>>

LlamarHistory ==
    \E sym \in Simbolos, falla \in {"ninguna", "hist_raise", "hist_vacio"} :
        \E r \in {GetOptionHistory(sym, falla, cache_hist, guardado)} :
            /\ cache_hist' = r.cache_hist
            /\ guardado' = r.guardado
            /\ llamadas' = <<r.llamada>>
            /\ excepcion' = [lanzada |-> IF r.valor = "raise"
                                           THEN Algo("hist_raise") ELSE None,
                             tragada |-> r.raised, bloque |-> None]
            /\ UNCHANGED <<varsFecha, varsStrike, ticker_simbolo,
                           tipo_opcion_elegido, boton, mostrado, metricas, fin,
                           out, cache_df>>

NextCache == LlamarDataframes \/ LlamarHistory \/ Tick(TTL - 1) \/ Tick(TTL)

SpecCache == Init /\ [][NextCache]_vars

----------------------------------------------------------------------------
\* The expiration column on its own, for every length of the provider's list.
\* Dates are numbered in the provider's order.

InitFechas ==
    /\ InitApp
    /\ strike_central = 0
    /\ strikes_disponibles = <<>>
    /\ strike_idx = DefaultIndex
    /\ strike_elegido = 0
    /\ todas_las_fechas \in {[i \in 1..n |-> i] : n \in 0..MaxDates}
    /\ fechas_a_mostrar = <<>>
    /\ fecha_elegida = None

\* lines 71-84, the select box showing its first option
MostrarFechas ==
    /\ out = <<>>
    /\ out' = ColumnaFecha(todas_las_fechas)
    /\ fechas_a_mostrar' = IF todas_las_fechas = <<>> THEN <<>>
                           ELSE FechasAMostrar(todas_las_fechas)
    /\ fecha_elegida' = IF todas_las_fechas = <<>> THEN None
                        ELSE Algo(FechasAMostrar(todas_las_fechas)[1])
    /\ UNCHANGED <<todas_las_fechas, varsStrike, varsRun, varsCache>>

\* the user picks another of the dates offered
ElegirFecha ==
    /\ fechas_a_mostrar # <<>>
    /\ \E i \in 1..Len(fechas_a_mostrar) :
          fecha_elegida' = Algo(fechas_a_mostrar[i])
    /\ UNCHANGED <<todas_las_fechas, fechas_a_mostrar, out, varsStrike,
                   varsRun, varsCache>>

NextFechas == MostrarFechas \/ ElegirFecha

SpecFechas == InitFechas /\ [][NextFechas]_vars

----------------------------------------------------------------------------
\* The strike column on its own, for every reference strike the user may type
\* (also ones with a third decimal).

InitStrikes ==
    /\ InitApp
    /\ strike_central \in (0 - MaxCentral)..MaxCentral
    /\ strikes_disponibles = <<>>
    /\ strike_idx = DefaultIndex
    /\ strike_elegido = 0
    /\ todas_las_fechas = <<>>
    /\ fechas_a_mostrar = <<>>
    /\ fecha_elegida = None

\* lines 65-66, the select box showing the candidate at index 10
GenerarStrikes ==
    /\ strikes_disponibles = <<>>
    /\ \E err \in FloatErr :
        \E s \in {StrikesDisponibles(strike_central, err)} :
          /\ strikes_disponibles' = s
          /\ strike_idx' = DefaultIndex
          /\ strike_elegido' = s[DefaultIndex + 1]
    /\ UNCHANGED <<strike_central, varsFecha, varsRun, varsCache, out>>

\* the user picks another candidate
ElegirStrike ==
    /\ strikes_disponibles # <<>>
    /\ \E i \in 0..(Len(strikes_disponibles) - 1) :
          /\ strike_idx' = i
          /\ strike_elegido' = strikes_disponibles[i + 1]
    /\ UNCHANGED <<strike_central, strikes_disponibles, varsFecha, varsRun,
                   varsCache, out>>

NextStrikes == GenerarStrikes \/ ElegirStrike

SpecStrikes == InitStrikes /\ [][NextStrikes]_vars

----------------------------------------------------------------------------
\* Properties.

\* the kinds of element that show the outcome of a search
Resultados == {"info", "success_encontrada", "dataframe", "subheader_metricas",
               "metricas", "subheader_historial", "line_chart",
               "warning_sin_historial", "warning_no_encontrada", "error"}
\* the kinds of element of the three selection columns and the button
Controles == {"success_precio", "number_input_strike", "selectbox_strike",
              "selectbox_fecha", "warning_sin_opciones", "selectbox_tipo",
              "button"}
ClasesDe(o) == {o[i][1] : i \in 1..Len(o)}

\* C1: whatever the length of the provider's non-empty list of expiration
\* dates, the list offered in the expiration select box has at most 20 entries.
C1_AtMostTwenty ==
    todas_las_fechas # <<>> => Len(fechas_a_mostrar) <= 20

\* a list long enough for the thinning to skip dates and to stop at twenty
C1_Witness ==
    /\ Len(todas_las_fechas) > 30
    /\ Len(fechas_a_mostrar) = 20
    /\ fecha_elegida = Algo(fechas_a_mostrar[20])

\* C9: the list offered is a subsequence of the provider's list that starts
\* with its first min(n, 10) dates; it is the whole list when n <= 20, and for
\* n > 10 the dates after the tenth are those at the (0-based) positions 10,
\* 10 + paso, 10 + 2*paso, ... with paso = max(1, (n - 10) div 10).
C9_ThinnedShape ==
    LET n == Len(todas_las_fechas)
        f == fechas_a_mostrar
        m == Len(fechas_a_mostrar)
        paso == IF (n - 10) \div 10 >= 1 THEN (n - 10) \div 10 ELSE 1
        \* dates are numbered in the provider's order: the date is its position
        EsSubsecuencia ==
            /\ \A j \in 1..m : f[j] \in 1..n /\ todas_las_fechas[f[j]] = f[j]
            /\ \A j \in 1..m, k \in 1..m : j < k => f[j] < f[k]
    IN  out # <<>> /\ n > 0 =>
          /\ EsSubsecuencia
          /\ m >= (IF n < 10 THEN n ELSE 10)
          /\ \A j \in 1..(IF n < 10 THEN n ELSE 10) : f[j] = todas_las_fechas[j]
          /\ n <= 20 => f = todas_las_fechas
          /\ n > 10 =>
               /\ m > 10
               /\ \A j \in 11..m :
                     f[j] = todas_las_fechas[10 + (j - 11) * paso + 1]

\* a list thinned with a step of three and cut at twenty
C9_Witness ==
    /\ Len(todas_las_fechas) > 40
    /\ Len(fechas_a_mostrar) = 20
    /\ fechas_a_mostrar[12] = fechas_a_mostrar[11] + 3

\* C2: for a reference strike c with at most two decimals the select box
\* offers exactly 21 candidates, rising in steps of 0.5 from c - 5 to c + 5,
\* and the candidate at index 10, the default selection, is c.
C2_StrikeCandidates ==
    LET c == strike_central
        s == strikes_disponibles
    IN  s # <<>> /\ c % 10 = 0 =>
          /\ Len(s) = 21
          /\ s[1] = c - 5000
          /\ s[21] = c + 5000
          /\ \A k \in 1..20 : s[k + 1] - s[k] = 500
          /\ s[11] = c
          /\ strike_idx = 10 => strike_elegido = c

\* the candidates of 0.07, which binary floating point cannot represent
C2_Witness ==
    /\ strike_central = 70
    /\ strikes_disponibles # <<>>
    /\ strike_idx = 10
    /\ strike_elegido = 70

\* C3: a memoized call returns a stored result only if that result was stored
\* by a call with equal arguments; get_option_dataframes for ticker B and date
\* d never returns the chain stored for another ticker A and the same date.
C3_KeyedByArguments ==
    \A i \in 1..Len(llamadas) :
        llamadas[i].acierto => llamadas[i].origen = llamadas[i].args

\* C4: a stored result is served only for calls made less than 3600 seconds
\* after it was stored, and a call made 3600 seconds or more after the last
\* store by its arguments fetches afresh.
C4_ExpiresAfterOneHour ==
    \A i \in 1..Len(llamadas) :
        /\ llamadas[i].acierto => llamadas[i].edad < 3600
        /\ (llamadas[i].previo # None /\ llamadas[i].previo[1] >= 3600)
              => ~llamadas[i].acierto

\* C5: in a run where the one-day history of the ticker typed is empty, the
\* error is shown and the run stops there: no selector, no button, no lookup.
C5_InvalidTickerHalts ==
    (/\ out # <<>>
     /\ ticker_simbolo # ""
     /\ Cierre(ticker_simbolo) = <<>>
     /\ excepcion.lanzada = None) =>
        /\ fin = "stop"
        /\ out[Len(out)] = El("error_ticker", "")
        /\ ClasesDe(out) \cap (Controles \cup Resultados \cup {"footer"}) = {}
        /\ llamadas = <<>>
        /\ mostrado = <<>>

C5_Witness ==
    /\ ticker_simbolo = "MALO"
    /\ fin = "stop"
    /\ cache_df # <<>>

\* C6: when the fetch of the contract's one-month history raises,
\* get_option_history returns the empty table, and the run shows the row found
\* and its metrics and then a warning, not an error, where the chart would be.
C6_HistoryFailureIsWarning ==
    excepcion.tragada =>
        /\ excepcion.lanzada = None
        /\ excepcion.bloque = None
        /\ fin = "completo"
        /\ mostrado # <<>>
        /\ metricas = Algo(mostrado[1])
        /\ ClaveHist(mostrado[1].contractSymbol) \in DOMAIN cache_hist
        /\ cache_hist[ClaveHist(mostrado[1].contractSymbol)].valor = "vacio"
        /\ Len(out) >= 8
        /\ SubSeq(Clases(out), Len(out) - 7, Len(out)) =
              <<"success_encontrada", "dataframe", "subheader_metricas",
                "metricas", "subheader_historial", "warning_sin_historial",
                "markdown", "footer">>
        /\ ClasesDe(out) \cap {"error", "traceback", "line_chart"} = {}

C6_Witness ==
    /\ excepcion.tragada
    /\ ticker_simbolo = "BBB"
    /\ tipo_opcion_elegido = "Call"
    /\ "warning_sin_historial" \in ClasesDe(out)

\* C7: an exception raised inside the try block is caught, its message is
\* shown as an error, it does not escape and the footer is still rendered.
C7_CatchAll ==
    excepcion.bloque # None =>
        /\ excepcion.lanzada = None
        /\ fin = "completo"
        /\ Len(out) >= 3
        /\ out[Len(out) - 2] = El("error", excepcion.bloque[1])
        /\ out[Len(out)] = El("footer", "")
        /\ "traceback" \notin ClasesDe(out)

\* an exception in the metric extraction, after the row was shown
C7_Witness ==
    /\ excepcion.bloque = Algo("metricas")
    /\ "dataframe" \in ClasesDe(out)
    /\ out[Len(out)] = El("footer", "")

\* C8: on a search the rows shown are exactly the rows, of the table of the
\* selected type for the ticker typed and the selected expiration, whose
\* strike is the selected strike; the option is reported found, with the
\* metrics of the first such row, exactly when there is one, and otherwise
\* only the not-found warning is shown, without metrics or history lookup.
C8_MatchingRows ==
    LET chain == Cadena(ticker_simbolo, fecha_elegida[1])
        tabla == IF tipo_opcion_elegido = "Call" THEN chain.calls
                 ELSE chain.puts
        Igual(f) == f.strike = strike_elegido
        filas == SelectSeq(tabla, Igual)
    IN  (/\ boton
         /\ fecha_elegida # None
         /\ fin = "completo"
         /\ excepcion.bloque = None) =>
            /\ mostrado = filas
            /\ "success_encontrada" \in ClasesDe(out) <=> filas # <<>>
            /\ filas # <<>> =>
                  /\ metricas = Algo(filas[1])
                  /\ "metricas" \in ClasesDe(out)
            /\ filas = <<>> =>
                  /\ "warning_no_encontrada" \in ClasesDe(out)
                  /\ metricas = None
                  /\ Len(llamadas) = 1

\* C10: a run looks a chain up and shows a result only if the button was
\* pressed in that run and a date is selected; for a ticker without dates the
\* warning is shown, the date is None and the button fetches nothing; a run
\* without the button shows no result, whatever an earlier search found.
C10_SearchGating ==
    /\ (llamadas # <<>> \/ ClasesDe(out) \cap Resultados # {})
          => boton /\ fecha_elegida # None
    /\ ("button" \in ClasesDe(out) /\ Opciones(ticker_simbolo) = <<>>)
          => /\ "warning_sin_opciones" \in ClasesDe(out)
             /\ "selectbox_fecha" \notin ClasesDe(out)
             /\ fecha_elegida = None
             /\ llamadas = <<>>
             /\ ClasesDe(out) \cap Resultados = {}
    /\ ~boton => mostrado = <<>> /\ metricas = None

\* the button pressed for a ticker without dates, after an earlier search
C10_Witness ==
    /\ boton
    /\ ticker_simbolo = "SINOPC"
    /\ "warning_sin_opciones" \in ClasesDe(out)
    /\ cache_hist # <<>>

====
